---- MODULE Spec2Model ----
(***************************************************************************)
(* mini_parsers: a recursive-descent XML parser and JSON parser            *)
(* (src/src/main.rs), the XmlNode -> JSON projection (to_json) and the     *)
(* JsonValue -> XML serializer (to_xml).                                   *)
(*                                                                         *)
(* A Rust String / Vec<char> is a sequence of one-character strings.       *)
(* Option<T> is a sequence of length 0 (None) or 1 (Some).  A HashMap is a *)
(* function.  The recursive parse functions are run by an explicit call    *)
(* stack: `stack` holds the nodes (values) under construction of the       *)
(* active calls, `pc` the place of the innermost call.                     *)
(***************************************************************************)
EXTENDS Integers, Sequences, FiniteSets, TLC

VARIABLES
  mode,     \* which program runs: "xml", "json", "to_json", "to_xml"
  input,    \* XmlParser.input / JsonParser.input
  pos,      \* XmlParser.position / JsonParser.position
  pc,       \* place of the innermost active call
  stack,    \* one frame per active recursive call
  ret,      \* Option: the value the innermost call has just returned
  result,   \* Option: the Result of the top-level parse()
  run,      \* 1: first parser instance, 2: a second instance on a re-spaced input
  orig,     \* run 2: the input of run 1
  insAt,    \* run 2: the offset in orig where whitespace was inserted
  first,    \* run 2: the outcome of run 1
  subject,  \* the XmlNode / JsonValue handed to to_json / to_xml
  output    \* Option: what to_json / to_xml returned

vars == <<mode, input, pos, pc, stack, ret, result, run, orig, insAt, first,
          subject, output>>

----------------------------------------------------------------------------
(* Characters *)

None == <<>>
Some(x) == <<x>>

Letters == {"a", "b", "x", "y", "e", "E", "n", "u", "l", "t", "r", "f", "s", "q"}
Digits == {"0", "1", "2", "3", "4", "5", "6", "7", "8", "9"}
Whitespace == {" ", "\n", "\t", "\r"}

IsWhitespace(c) == c \in Whitespace
IsDigit(c) == c \in Digits
IsAlphanumeric(c) == c \in Letters \cup Digits

\* String::trim
RECURSIVE TrimStart(_)
TrimStart(s) ==
  IF s # <<>> /\ IsWhitespace(Head(s)) THEN TrimStart(Tail(s)) ELSE s

RECURSIVE TrimEnd(_)
TrimEnd(s) ==
  IF s # <<>> /\ IsWhitespace(s[Len(s)])
  THEN TrimEnd(SubSeq(s, 1, Len(s) - 1)) ELSE s

Trim(s) == TrimEnd(TrimStart(s))

\* HashMap::new, HashMap::insert
EmptyMap == [k \in {} |-> k]
MapInsert(m, k, v) == [x \in DOMAIN m \cup {k} |-> IF x = k THEN v ELSE m[x]]

\* Result<_, String>: the Err messages built by format! keep their arguments
Err(msg, args) == [kind |-> "Err", msg |-> msg, args |-> args]
Ok(v) == [kind |-> "Ok", value |-> v]

----------------------------------------------------------------------------
(* The character cursor (the same code in XmlParser and JsonParser) *)

PeekChar(inp, p) == IF p < Len(inp) THEN Some(inp[p + 1]) ELSE None

PeekNextChar(inp, p) == IF p + 1 < Len(inp) THEN Some(inp[p + 2]) ELSE None

NextChar(inp, p) == [c |-> PeekChar(inp, p), pos |-> p + 1]

RECURSIVE SkipWhitespace(_, _)
SkipWhitespace(inp, p) ==
  LET c == PeekChar(inp, p) IN
  IF c # None /\ IsWhitespace(c[1])
  THEN SkipWhitespace(inp, NextChar(inp, p).pos)
  ELSE p

ExpectChar(inp, p, expected) ==
  LET n == NextChar(inp, p) IN
  IF n.c = Some(expected) THEN [ok |-> TRUE, pos |-> n.pos]
  ELSE IF n.c # None
  THEN [ok |-> FALSE, pos |-> n.pos,
        err |-> Err("Expected, found", <<expected, n.c[1]>>)]
  ELSE [ok |-> FALSE, pos |-> n.pos,
        err |-> Err("Expected, found end of input", <<expected>>)]

----------------------------------------------------------------------------
(* XmlNode and the leaf scanners of XmlParser *)

XmlNodeNew(tag) ==
  [tag |-> tag, attributes |-> EmptyMap, children |-> <<>>, text |-> None]

IsNameChar(c) == IsAlphanumeric(c) \/ c = "_" \/ c = "-"

RECURSIVE TagNameLoop(_, _, _)
TagNameLoop(inp, p, name) ==
  LET c == PeekChar(inp, p) IN
  IF c # None /\ IsNameChar(c[1])
  THEN TagNameLoop(inp, NextChar(inp, p).pos, Append(name, c[1]))
  ELSE [pos |-> p, name |-> name]

ParseTagName(inp, p) ==
  LET r == TagNameLoop(inp, p, <<>>) IN
  IF r.name = <<>>
  THEN [ok |-> FALSE, pos |-> r.pos, err |-> Err("Expected tag name", <<>>)]
  ELSE [ok |-> TRUE, pos |-> r.pos, name |-> r.name]

RECURSIVE ParseAttributeValue(_, _, _)
ParseAttributeValue(inp, p, value) ==
  LET n == NextChar(inp, p) IN
  IF n.c = None
  THEN [ok |-> FALSE, pos |-> n.pos,
        err |-> Err("Unterminated attribute value", <<>>)]
  ELSE IF n.c[1] = "\""
  THEN [ok |-> TRUE, pos |-> n.pos, value |-> value]
  ELSE ParseAttributeValue(inp, n.pos, Append(value, n.c[1]))

RECURSIVE AttributesLoop(_, _, _)
AttributesLoop(inp, p, attributes) ==
  LET p1 == SkipWhitespace(inp, p) IN
  IF PeekChar(inp, p1) = Some(">") \/ PeekChar(inp, p1) = Some("/")
  THEN [ok |-> TRUE, pos |-> p1, attributes |-> attributes]
  ELSE
    LET name == ParseTagName(inp, p1) IN
    IF ~name.ok THEN name ELSE
    LET eq == ExpectChar(inp, SkipWhitespace(inp, name.pos), "=") IN
    IF ~eq.ok THEN eq ELSE
    LET quote == ExpectChar(inp, SkipWhitespace(inp, eq.pos), "\"") IN
    IF ~quote.ok THEN quote ELSE
    LET value == ParseAttributeValue(inp, quote.pos, <<>>) IN
    IF ~value.ok THEN value ELSE
    AttributesLoop(inp, value.pos, MapInsert(attributes, name.name, value.value))

ParseAttributes(inp, p) == AttributesLoop(inp, p, EmptyMap)

RECURSIVE TextLoop(_, _, _)
TextLoop(inp, p, text) ==
  LET c == PeekChar(inp, p) IN
  IF c # None /\ c[1] # "<"
  THEN TextLoop(inp, NextChar(inp, p).pos, Append(text, c[1]))
  ELSE [pos |-> p, text |-> text]

ParseText(inp, p) == TextLoop(inp, p, <<>>)

\* XmlParser::parse up to the end of the opening tag: `closed` tells the
\* self-closing return from the fall through into the content loop
OpenTag(inp, p) ==
  LET lt == ExpectChar(inp, SkipWhitespace(inp, p), "<") IN
  IF ~lt.ok THEN lt ELSE
  LET tag == ParseTagName(inp, lt.pos) IN
  IF ~tag.ok THEN tag ELSE
  LET attrs == ParseAttributes(inp, tag.pos) IN
  IF ~attrs.ok THEN attrs ELSE
  LET node == [XmlNodeNew(tag.name) EXCEPT !.attributes = attrs.attributes]
      p1 == SkipWhitespace(inp, attrs.pos)
  IN
  IF PeekChar(inp, p1) = Some("/")
  THEN LET gt == ExpectChar(inp, NextChar(inp, p1).pos, ">") IN
       IF ~gt.ok THEN gt
       ELSE [ok |-> TRUE, pos |-> gt.pos, node |-> node, closed |-> TRUE]
  ELSE LET gt == ExpectChar(inp, p1, ">") IN
       IF ~gt.ok THEN gt
       ELSE [ok |-> TRUE, pos |-> gt.pos, node |-> node, closed |-> FALSE]

\* CloseTag without the comparison of the two names
CloseTagUnchecked(inp, p, node) ==
  LET close == ParseTagName(inp, NextChar(inp, NextChar(inp, p).pos).pos) IN
  IF ~close.ok THEN close ELSE ExpectChar(inp, close.pos, ">")

\* the closing-tag branch of the content loop
CloseTag(inp, p, node) ==
  LET p2 == NextChar(inp, NextChar(inp, p).pos).pos
      close == ParseTagName(inp, p2)
  IN
  IF ~close.ok THEN close ELSE
  IF close.name # node.tag
  THEN [ok |-> FALSE, pos |-> close.pos,
        err |-> Err("Mismatched tags", <<node.tag, close.name>>)]
  ELSE ExpectChar(inp, close.pos, ">")

\* the text branch of the content loop
StoreText(node, text) ==
  IF Trim(text) # <<>> THEN [node EXCEPT !.text = Some(text)] ELSE node

----------------------------------------------------------------------------
(* JsonValue and the leaf scanners of JsonParser *)

JsonNull == [t |-> "Null", v |-> <<>>]
JsonBoolean(b) == [t |-> "Boolean", v |-> b]
JsonNumber(n) == [t |-> "Number", v |-> n]
JsonString(s) == [t |-> "String", v |-> s]
JsonArray(a) == [t |-> "Array", v |-> a]
JsonObject(o) == [t |-> "Object", v |-> o]

\* the characters '\x08' and '\x0c'
Backspace == "U+0008"
FormFeed == "U+000C"

\* self.input[self.position..].starts_with(lit); a parse function is entered
\* only with a character under the cursor, so the slice never panics
StartsWith(inp, p, lit) ==
  /\ p + Len(lit) <= Len(inp)
  /\ SubSeq(inp, p + 1, p + Len(lit)) = lit

ParseNull(inp, p) ==
  IF StartsWith(inp, p, <<"n", "u", "l", "l">>)
  THEN [ok |-> TRUE, pos |-> p + 4, value |-> JsonNull]
  ELSE [ok |-> FALSE, pos |-> p, err |-> Err("Expected null", <<>>)]

ParseBoolean(inp, p) ==
  IF StartsWith(inp, p, <<"t", "r", "u", "e">>)
  THEN [ok |-> TRUE, pos |-> p + 4, value |-> JsonBoolean(TRUE)]
  ELSE IF StartsWith(inp, p, <<"f", "a", "l", "s", "e">>)
  THEN [ok |-> TRUE, pos |-> p + 5, value |-> JsonBoolean(FALSE)]
  ELSE [ok |-> FALSE, pos |-> p, err |-> Err("Expected true or false", <<>>)]

\* the character an escape stands for; None: "Invalid escape sequence"
Unescape(next) ==
  IF next \in {"\"", "\\", "/"} THEN Some(next)
  ELSE IF next = "b" THEN Some(Backspace)
  ELSE IF next = "f" THEN Some(FormFeed)
  ELSE IF next = "n" THEN Some("\n")
  ELSE IF next = "r" THEN Some("\r")
  ELSE IF next = "t" THEN Some("\t")
  ELSE None

RECURSIVE StringLoop(_, _, _)
StringLoop(inp, p, string) ==
  LET n == NextChar(inp, p) IN
  IF n.c = None
  THEN [ok |-> FALSE, pos |-> n.pos, err |-> Err("Unterminated string", <<>>)]
  ELSE IF n.c[1] = "\""
  THEN [ok |-> TRUE, pos |-> n.pos, value |-> JsonString(string)]
  ELSE IF n.c[1] = "\\"
  THEN LET e == NextChar(inp, n.pos) IN
       IF e.c = None THEN StringLoop(inp, e.pos, string)
       ELSE IF Unescape(e.c[1]) = None
       THEN [ok |-> FALSE, pos |-> e.pos,
             err |-> Err("Invalid escape sequence", <<>>)]
       ELSE StringLoop(inp, e.pos, Append(string, Unescape(e.c[1])[1]))
  ELSE StringLoop(inp, n.pos, Append(string, n.c[1]))

ParseString(inp, p) == StringLoop(inp, NextChar(inp, p).pos, <<>>)

\* the three `while let Some(c) = self.peek_char()` digit loops
RECURSIVE DigitLoop(_, _, _, _)
DigitLoop(inp, p, number, has_digit) ==
  LET c == PeekChar(inp, p) IN
  IF c # None /\ IsDigit(c[1])
  THEN DigitLoop(inp, NextChar(inp, p).pos, Append(number, c[1]), TRUE)
  ELSE [pos |-> p, number |-> number, has_digit |-> has_digit]

\* <f64 as FromStr>::from_str on the text parse_number collects (which holds
\* only '-', '+', '.', 'e', 'E' and digits, so "inf" and "nan" never arise):
\*   [+-]? ( digit+ | digit+ '.' digit* | digit* '.' digit+ ) ([eE] [+-]? digit+)?
\* The value is the decimal the text denotes, as sign, mantissa and power of
\* ten with the mantissa's trailing zeros removed.
DigitValue(c) == CHOOSE d \in 0..9 : ToString(d) = c

RECURSIVE DigitsToNat(_)
DigitsToNat(ds) ==
  IF ds = <<>> THEN 0
  ELSE 10 * DigitsToNat(SubSeq(ds, 1, Len(ds) - 1)) + DigitValue(ds[Len(ds)])

RECURSIVE Normalize(_, _, _)
Normalize(neg, m, e) ==
  IF m = 0 THEN [neg |-> neg, mant |-> 0, exp |-> 0]
  ELSE IF m % 10 = 0 THEN Normalize(neg, m \div 10, e + 1)
  ELSE [neg |-> neg, mant |-> m, exp |-> e]

RECURSIVE LeadingDigits(_)
LeadingDigits(s) ==
  IF s # <<>> /\ IsDigit(Head(s)) THEN <<Head(s)>> \o LeadingDigits(Tail(s))
  ELSE <<>>

Drop(s, n) == SubSeq(s, n + 1, Len(s))

F64FromStr(text) ==
  LET signed == text # <<>> /\ Head(text) \in {"-", "+"}
      neg == signed /\ Head(text) = "-"
      s1 == IF signed THEN Tail(text) ELSE text
      int == LeadingDigits(s1)
      s2 == Drop(s1, Len(int))
      dot == s2 # <<>> /\ Head(s2) = "."
      frac == IF dot THEN LeadingDigits(Tail(s2)) ELSE <<>>
      s3 == IF dot THEN Drop(s2, 1 + Len(frac)) ELSE s2
      hasExp == s3 # <<>> /\ Head(s3) \in {"e", "E"}
      s4 == IF hasExp THEN Tail(s3) ELSE s3
      expSigned == hasExp /\ s4 # <<>> /\ Head(s4) \in {"-", "+"}
      s5 == IF expSigned THEN Tail(s4) ELSE s4
      expDigits == IF hasExp THEN LeadingDigits(s5) ELSE <<>>
      s6 == Drop(s5, Len(expDigits))
      e == IF expSigned /\ Head(s4) = "-"
           THEN 0 - DigitsToNat(expDigits) ELSE DigitsToNat(expDigits)
  IN
  IF \/ int = <<>> /\ frac = <<>>
     \/ hasExp /\ expDigits = <<>>
     \/ s6 # <<>>
  THEN None
  ELSE Some(Normalize(neg, DigitsToNat(int \o frac), e - Len(frac)))

ParseNumber(inp, p) ==
  LET minus == PeekChar(inp, p) = Some("-")
      p1 == IF minus THEN NextChar(inp, p).pos ELSE p
      int == DigitLoop(inp, p1, IF minus THEN <<"-">> ELSE <<>>, FALSE)
      dot == PeekChar(inp, int.pos) = Some(".")
      frac == IF dot
              THEN DigitLoop(inp, NextChar(inp, int.pos).pos,
                             Append(int.number, "."), FALSE)
              ELSE int
      hasExp == PeekChar(inp, frac.pos) \in {Some("e"), Some("E")}
      p2 == NextChar(inp, frac.pos).pos
      n2 == Append(frac.number, inp[frac.pos + 1])
      expSigned == PeekChar(inp, p2) \in {Some("+"), Some("-")}
      exp == IF expSigned
             THEN DigitLoop(inp, NextChar(inp, p2).pos,
                            Append(n2, inp[p2 + 1]), FALSE)
             ELSE DigitLoop(inp, p2, n2, FALSE)
      last == IF hasExp THEN exp ELSE frac
  IN
  IF dot /\ ~frac.has_digit
  THEN [ok |-> FALSE, pos |-> frac.pos,
        err |-> Err("Expected digit after decimal point", <<>>)]
  ELSE IF hasExp /\ ~exp.has_digit
  THEN [ok |-> FALSE, pos |-> exp.pos,
        err |-> Err("Expected digit after exponent", <<>>)]
  ELSE IF F64FromStr(last.number) = None
  THEN [ok |-> FALSE, pos |-> last.pos, err |-> Err("Invalid number", <<>>)]
  ELSE [ok |-> TRUE, pos |-> last.pos,
        value |-> JsonNumber(F64FromStr(last.number)[1])]

\* parse_value: the productions that call no parse_value themselves
ParseScalar(inp, p) ==
  LET p0 == SkipWhitespace(inp, p)
      c == PeekChar(inp, p0)
  IN
  IF c = None
  THEN [ok |-> FALSE, pos |-> p0, err |-> Err("Unexpected end of input", <<>>)]
  ELSE IF c[1] = "n" THEN ParseNull(inp, p0)
  ELSE IF c[1] \in {"t", "f"} THEN ParseBoolean(inp, p0)
  ELSE IF c[1] = "\"" THEN ParseString(inp, p0)
  ELSE IF IsDigit(c[1]) \/ c[1] = "-" THEN ParseNumber(inp, p0)
  ELSE [ok |-> FALSE, pos |-> p0, err |-> Err("Unexpected character", <<c[1]>>)]

----------------------------------------------------------------------------
(* Inputs *)

MaxXmlTokens == 4

RECURSIVE Flatten(_)
Flatten(ss) == IF ss = <<>> THEN <<>> ELSE Head(ss) \o Flatten(Tail(ss))

TokenStrings(tokens, n) ==
  {Flatten(ts) : ts \in UNION {[1..k -> tokens] : k \in 0..n}}

XmlTokens ==
  { <<"<", "a", ">">>, <<"<", "/", "a", ">">>, <<"<", "b", "/", ">">>,
    <<"<", "b", ">">>, <<"x">>, <<" ">>,
    <<"<", "a", " ", "y", "=", "\"", "1", "\"">>, <<">">>, <<"/">> }

XmlInputs == TokenStrings(XmlTokens, MaxXmlTokens)

\* the ways of inserting one run of whitespace into a string
WhitespaceRuns == {<<" ">>, <<"\n", "\t">>}

InsertAt(s, i, w) == SubSeq(s, 1, i) \o w \o SubSeq(s, i + 1, Len(s))

----------------------------------------------------------------------------
(* XmlParser *)

\* XmlParser::new
XmlNew(inp) ==
  /\ mode' = "xml"
  /\ input' = inp
  /\ pos' = 0
  /\ pc' = "parse"
  /\ stack' = <<>>
  /\ ret' = None
  /\ result' = None

\* the `?` operator: the error leaves every active call
XmlFail(r) ==
  /\ pos' = r.pos
  /\ pc' = "done"
  /\ stack' = <<>>
  /\ ret' = None
  /\ result' = Some(r.err)

Top == stack[Len(stack)]

\* parse(): from its entry to the end of the opening tag
XmlOpen ==
  /\ mode = "xml" /\ pc = "parse"
  /\ LET r == OpenTag(input, pos) IN
     IF ~r.ok THEN XmlFail(r)
     ELSE /\ pos' = r.pos
          /\ result' = result
          /\ IF r.closed
             THEN /\ pc' = "return"
                  /\ ret' = Some(r.node)
                  /\ stack' = stack
             ELSE /\ pc' = "loop"
                  /\ ret' = None
                  /\ stack' = Append(stack, r.node)
  /\ UNCHANGED <<mode, input, run, orig, insAt, first, subject, output>>

\* the head of the content loop
XmlLoop ==
  /\ mode = "xml" /\ pc = "loop"
  /\ pos' = SkipWhitespace(input, pos)
  /\ pc' = "item"
  /\ UNCHANGED <<mode, input, stack, ret, result, run, orig, insAt, first,
                 subject, output>>

\* content loop: "</" ends the element
XmlClose ==
  /\ mode = "xml" /\ pc = "item"
  /\ PeekChar(input, pos) = Some("<")
  /\ PeekNextChar(input, pos) = Some("/")
  /\ LET r == CloseTag(input, pos, Top) IN
     IF ~r.ok THEN XmlFail(r)
     ELSE /\ pos' = r.pos
          /\ pc' = "return"
          /\ ret' = Some(Top)
          /\ stack' = SubSeq(stack, 1, Len(stack) - 1)
          /\ result' = result
  /\ UNCHANGED <<mode, input, run, orig, insAt, first, subject, output>>

\* content loop: "<" not followed by "/" starts a child, parsed by parse()
XmlChild ==
  /\ mode = "xml" /\ pc = "item"
  /\ PeekChar(input, pos) = Some("<")
  /\ PeekNextChar(input, pos) # Some("/")
  /\ pc' = "parse"
  /\ UNCHANGED <<mode, input, pos, stack, ret, result, run, orig, insAt,
                 first, subject, output>>

\* content loop: anything else is a text run
XmlText ==
  /\ mode = "xml" /\ pc = "item"
  /\ PeekChar(input, pos) # Some("<")
  /\ LET r == ParseText(input, pos) IN
     /\ pos' = r.pos
     /\ stack' = [stack EXCEPT ![Len(stack)] = StoreText(Top, r.text)]
  /\ pc' = "loop"
  /\ UNCHANGED <<mode, input, ret, result, run, orig, insAt, first, subject,
                 output>>

\* Ok(node): to the caller's push of the child, or out of the outermost call
XmlReturn ==
  /\ mode = "xml" /\ pc = "return"
  /\ IF stack = <<>>
     THEN /\ pc' = "done"
          /\ result' = Some(Ok(ret[1]))
          /\ stack' = stack
     ELSE /\ pc' = "loop"
          /\ result' = result
          /\ stack' = [stack EXCEPT ![Len(stack)].children = Append(@, ret[1])]
  /\ ret' = None
  /\ UNCHANGED <<mode, input, pos, run, orig, insAt, first, subject, output>>

\* the content loop at the end of the input: XmlLoop and XmlText change
\* nothing any more and the call never returns
XmlHung == mode = "xml" /\ pc = "item" /\ PeekChar(input, pos) = None

Hang == [kind |-> "Hang"]

\* a second XmlParser, on the same text with one run of whitespace inserted
\* after a '>' and before a '<'
XmlRespace ==
  /\ mode = "xml" /\ run = 1
  /\ pc = "done" \/ XmlHung
  /\ \E i \in 1..(Len(input) - 1), w \in WhitespaceRuns :
       /\ input[i] = ">" /\ input[i + 1] = "<"
       /\ XmlNew(InsertAt(input, i, w))
       /\ insAt' = i
  /\ orig' = input
  /\ first' = IF pc = "done" THEN result ELSE Some(Hang)
  /\ run' = 2
  /\ UNCHANGED <<subject, output>>

InitXml ==
  /\ mode = "xml"
  /\ input \in XmlInputs
  /\ pos = 0
  /\ pc = "parse"
  /\ stack = <<>>
  /\ ret = None
  /\ result = None
  /\ run = 1
  /\ orig = <<>>
  /\ insAt = 0
  /\ first = None
  /\ subject = None
  /\ output = None

NextXml ==
  \/ XmlOpen
  \/ XmlLoop
  \/ XmlClose
  \/ XmlChild
  \/ XmlText
  \/ XmlReturn
  \/ XmlRespace

SpecXml == InitXml /\ [][NextXml]_vars

----------------------------------------------------------------------------
(* JsonParser *)

MaxJsonTokens == 4

\* three families of input texts: number literals, strings, structure
JsonNumberTokens == { <<"1">>, <<"0">>, <<"-">>, <<".">>, <<"e">>, <<" ">> }

JsonStringTokens == { <<"\"">>, <<"\\">>, <<"n">>, <<"q">>, <<",">>, <<" ">> }

JsonStructureTokens ==
  { <<"[">>, <<"]">>, <<",">>, <<",", "1">>, <<"{", "\"", "a", "\"", ":">>,
    <<"}">>, <<"1">>, <<" ">>, <<"n", "u", "l", "l">> }

JsonInputs ==
  TokenStrings(JsonNumberTokens, MaxJsonTokens)
    \cup TokenStrings(JsonStringTokens, MaxJsonTokens)
    \cup TokenStrings(JsonStructureTokens, MaxJsonTokens)

Structural == {",", ":", "[", "]", "{", "}"}

\* JsonParser::new
JsonNew(inp) ==
  /\ mode' = "json"
  /\ input' = inp
  /\ pos' = 0
  /\ pc' = "value"
  /\ stack' = <<>>
  /\ ret' = None
  /\ result' = None

\* the `?` operator and the explicit `return Err(..)`
JsonFail(p, err) ==
  /\ pos' = p
  /\ pc' = "done"
  /\ stack' = <<>>
  /\ ret' = None
  /\ result' = Some(err)

\* parse_value on null, a boolean, a string, a number, or on no value at all
JsonScalar ==
  /\ mode = "json" /\ pc = "value"
  /\ PeekChar(input, SkipWhitespace(input, pos)) \notin {Some("["), Some("{")}
  /\ LET r == ParseScalar(input, pos) IN
     IF ~r.ok THEN JsonFail(r.pos, r.err)
     ELSE /\ pos' = r.pos
          /\ pc' = "return"
          /\ ret' = Some(r.value)
          /\ UNCHANGED <<stack, result>>
  /\ UNCHANGED <<mode, input, run, orig, insAt, first, subject, output>>

\* parse_value on '[': parse_array up to its loop
JsonArrayOpen ==
  /\ mode = "json" /\ pc = "value"
  /\ LET p0 == SkipWhitespace(input, pos) IN
     /\ PeekChar(input, p0) = Some("[")
     /\ pos' = NextChar(input, p0).pos
  /\ stack' = Append(stack, [t |-> "array", items |-> <<>>])
  /\ pc' = "array"
  /\ UNCHANGED <<mode, input, ret, result, run, orig, insAt, first, subject,
                 output>>

\* parse_value on '{': parse_object up to its loop
JsonObjectOpen ==
  /\ mode = "json" /\ pc = "value"
  /\ LET p0 == SkipWhitespace(input, pos) IN
     /\ PeekChar(input, p0) = Some("{")
     /\ pos' = NextChar(input, p0).pos
  /\ stack' = Append(stack, [t |-> "object", map |-> EmptyMap, key |-> None])
  /\ pc' = "object"
  /\ UNCHANGED <<mode, input, ret, result, run, orig, insAt, first, subject,
                 output>>

\* one pass of a loop of parse_array (close == "]") or parse_object ("}"),
\* up to its call of parse_value: `empty` is the collection's is_empty()
LoopHead(inp, p, close, empty) ==
  LET p1 == SkipWhitespace(inp, p) IN
  IF PeekChar(inp, p1) = Some(close)
  THEN [ok |-> TRUE, pos |-> NextChar(inp, p1).pos, closed |-> TRUE]
  ELSE IF empty
  THEN [ok |-> TRUE, pos |-> p1, closed |-> FALSE]
  ELSE IF PeekChar(inp, p1) = Some(",")
  THEN [ok |-> TRUE, pos |-> SkipWhitespace(inp, NextChar(inp, p1).pos),
        closed |-> FALSE]
  ELSE [ok |-> FALSE, pos |-> p1, err |-> Err("Expected comma", <<>>)]

JsonArrayLoop ==
  /\ mode = "json" /\ pc = "array"
  /\ LET r == LoopHead(input, pos, "]", Top.items = <<>>) IN
     IF ~r.ok THEN JsonFail(r.pos, r.err)
     ELSE /\ pos' = r.pos
          /\ result' = result
          /\ IF r.closed
             THEN /\ pc' = "return"
                  /\ ret' = Some(JsonArray(Top.items))
                  /\ stack' = SubSeq(stack, 1, Len(stack) - 1)
             ELSE /\ pc' = "value"
                  /\ UNCHANGED <<ret, stack>>
  /\ UNCHANGED <<mode, input, run, orig, insAt, first, subject, output>>

JsonObjectLoop ==
  /\ mode = "json" /\ pc = "object"
  /\ LET r == LoopHead(input, pos, "}", DOMAIN Top.map = {}) IN
     IF ~r.ok THEN JsonFail(r.pos, r.err)
     ELSE /\ pos' = r.pos
          /\ result' = result
          /\ IF r.closed
             THEN /\ pc' = "return"
                  /\ ret' = Some(JsonObject(Top.map))
                  /\ stack' = SubSeq(stack, 1, Len(stack) - 1)
             ELSE /\ pc' = "value"
                  /\ UNCHANGED <<ret, stack>>
  /\ UNCHANGED <<mode, input, run, orig, insAt, first, subject, output>>

\* parse_array: array.push(self.parse_value()?)
JsonArrayPush ==
  /\ mode = "json" /\ pc = "return"
  /\ stack # <<>> /\ Top.t = "array"
  /\ stack' = [stack EXCEPT ![Len(stack)].items = Append(@, ret[1])]
  /\ ret' = None
  /\ pc' = "array"
  /\ UNCHANGED <<mode, input, pos, result, run, orig, insAt, first, subject,
                 output>>

\* ObjectKey without the skip_whitespace before the colon
ObjectKeyNoSkip(inp, p, value) ==
  IF value.t # "String"
  THEN [ok |-> FALSE, pos |-> p,
        err |-> Err("Expected string as object key", <<>>)]
  ELSE LET n == NextChar(inp, p) IN
       IF n.c # Some(":")
       THEN [ok |-> FALSE, pos |-> n.pos, err |-> Err("Expected colon", <<>>)]
       ELSE [ok |-> TRUE, pos |-> n.pos, key |-> value.v]

\* parse_object: the value parsed as the key, then the colon
ObjectKey(inp, p, value) ==
  IF value.t # "String"
  THEN [ok |-> FALSE, pos |-> p,
        err |-> Err("Expected string as object key", <<>>)]
  ELSE LET n == NextChar(inp, SkipWhitespace(inp, p)) IN
       IF n.c # Some(":")
       THEN [ok |-> FALSE, pos |-> n.pos, err |-> Err("Expected colon", <<>>)]
       ELSE [ok |-> TRUE, pos |-> n.pos, key |-> value.v]

JsonObjectKey ==
  /\ mode = "json" /\ pc = "return"
  /\ stack # <<>> /\ Top.t = "object" /\ Top.key = None
  /\ LET r == ObjectKey(input, pos, ret[1]) IN
     IF ~r.ok THEN JsonFail(r.pos, r.err)
     ELSE /\ pos' = r.pos
          /\ stack' = [stack EXCEPT ![Len(stack)].key = Some(r.key)]
          /\ pc' = "value"
          /\ ret' = None
          /\ result' = result
  /\ UNCHANGED <<mode, input, run, orig, insAt, first, subject, output>>

\* parse_object: object.insert(key, value)
JsonObjectInsert ==
  /\ mode = "json" /\ pc = "return"
  /\ stack # <<>> /\ Top.t = "object" /\ Top.key # None
  /\ stack' = [stack EXCEPT ![Len(stack)] =
                 [@ EXCEPT !.map = MapInsert(@, Top.key[1], ret[1]),
                           !.key = None]]
  /\ ret' = None
  /\ pc' = "object"
  /\ UNCHANGED <<mode, input, pos, result, run, orig, insAt, first, subject,
                 output>>

\* ParseEnd without the test for characters left
ParseEndUnchecked(inp, p, value) ==
  [pos |-> SkipWhitespace(inp, p), res |-> Ok(value)]

\* JsonParser::parse after its parse_value
ParseEnd(inp, p, value) ==
  LET p1 == SkipWhitespace(inp, p) IN
  IF p1 < Len(inp)
  THEN [pos |-> p1, res |-> Err("Unexpected characters after JSON value", <<>>)]
  ELSE [pos |-> p1, res |-> Ok(value)]

JsonEnd ==
  /\ mode = "json" /\ pc = "return"
  /\ stack = <<>>
  /\ LET r == ParseEnd(input, pos, ret[1]) IN
     /\ pos' = r.pos
     /\ result' = Some(r.res)
  /\ pc' = "done"
  /\ ret' = None
  /\ UNCHANGED <<mode, input, stack, run, orig, insAt, first, subject, output>>

\* a second JsonParser, on the same text with one run of whitespace inserted
\* before or after a structural character
JsonRespace ==
  /\ mode = "json" /\ run = 1
  /\ pc = "done"
  /\ \E i \in 0..Len(input), w \in WhitespaceRuns :
       /\ \/ i >= 1 /\ input[i] \in Structural
          \/ i < Len(input) /\ input[i + 1] \in Structural
       /\ JsonNew(InsertAt(input, i, w))
       /\ insAt' = i
  /\ orig' = input
  /\ first' = result
  /\ run' = 2
  /\ UNCHANGED <<subject, output>>

InitJson ==
  /\ mode = "json"
  /\ input \in JsonInputs
  /\ pos = 0
  /\ pc = "value"
  /\ stack = <<>>
  /\ ret = None
  /\ result = None
  /\ run = 1
  /\ orig = <<>>
  /\ insAt = 0
  /\ first = None
  /\ subject = None
  /\ output = None

NextJson ==
  \/ JsonScalar
  \/ JsonArrayOpen
  \/ JsonObjectOpen
  \/ JsonArrayLoop
  \/ JsonObjectLoop
  \/ JsonArrayPush
  \/ JsonObjectKey
  \/ JsonObjectInsert
  \/ JsonEnd
  \/ JsonRespace

SpecJson == InitJson /\ [][NextJson]_vars

\* either parser
Init == InitXml \/ InitJson

Next == NextXml \/ NextJson

Spec == Init /\ [][Next]_vars

----------------------------------------------------------------------------
(* XmlNode::to_json *)

AttributesKey == <<"@", "a", "t", "t", "r", "i", "b", "u", "t", "e", "s">>
TextKey == <<"#", "t", "e", "x", "t">>

\* InsertAll taking the first value of every group, whatever its length
InsertAllFirst(map, groups) ==
  [k \in DOMAIN map \cup DOMAIN groups |->
     IF k \in DOMAIN groups THEN groups[k][1] ELSE map[k]]

\* map.insert(tag, json_val) for every entry of children_map
InsertAll(map, groups) ==
  [k \in DOMAIN map \cup DOMAIN groups |->
     IF k \in DOMAIN groups
     THEN IF Len(groups[k]) = 1 THEN groups[k][1] ELSE JsonArray(groups[k])
     ELSE map[k]]

\* BareText without the test of the attributes
BareTextOfLeaf(node) == node.text # None /\ node.children = <<>>

\* the node is returned as its text alone
BareText(node) ==
  node.text # None /\ node.children = <<>> /\ DOMAIN node.attributes = {}

RECURSIVE ToJson(_)
RECURSIVE ChildrenMap(_, _)

\* children_map.entry(child.tag).or_insert_with(Vec::new).push(child.to_json())
\* for each child in turn
ChildrenMap(children, map) ==
  IF children = <<>> THEN map
  ELSE LET child == Head(children)
           values == IF child.tag \in DOMAIN map THEN map[child.tag] ELSE <<>>
       IN ChildrenMap(Tail(children),
                      MapInsert(map, child.tag, Append(values, ToJson(child))))

ToJson(node) ==
  LET attrs == [k \in DOMAIN node.attributes |-> JsonString(node.attributes[k])]
      m1 == IF DOMAIN node.attributes # {}
            THEN MapInsert(EmptyMap, AttributesKey, JsonObject(attrs))
            ELSE EmptyMap
      m2 == IF node.text # None
            THEN MapInsert(m1, TextKey, JsonString(node.text[1]))
            ELSE m1
      m3 == InsertAll(m2, ChildrenMap(node.children, EmptyMap))
  IN
  IF BareText(node) THEN JsonString(node.text[1])
  ELSE IF DOMAIN m3 = {} THEN JsonNull
  ELSE JsonObject(m3)

MaxChildren == 3

XmlNode(tag, attributes, children, text) ==
  [tag |-> tag, attributes |-> attributes, children |-> children, text |-> text]

\* the nodes handed to to_json: what XmlParser::parse can build
SomeAttributes == {EmptyMap, MapInsert(EmptyMap, <<"y">>, <<"1">>)}
SomeTexts == {None, Some(<<"x">>)}
ChildNodes ==
  {XmlNode(t, EmptyMap, <<>>, x) : t \in {<<"a">>, <<"b">>}, x \in SomeTexts}
    \cup {XmlNode(<<"a">>, a, <<XmlNode(<<"b">>, EmptyMap, <<>>, None)>>, None) :
            a \in SomeAttributes}
SomeNodes ==
  {XmlNode(<<"r">>, a, cs, x) :
     a \in SomeAttributes, x \in SomeTexts,
     cs \in UNION {[1..k -> ChildNodes] : k \in 0..MaxChildren}}

ToJsonCall ==
  /\ mode = "to_json" /\ output = None
  /\ output' = Some(ToJson(subject))
  /\ UNCHANGED <<mode, input, pos, pc, stack, ret, result, run, orig, insAt,
                 first, subject>>

InitToJson ==
  /\ mode = "to_json"
  /\ subject \in SomeNodes
  /\ output = None
  /\ input = <<>> /\ pos = 0 /\ pc = "done" /\ stack = <<>>
  /\ ret = None /\ result = None
  /\ run = 1 /\ orig = <<>> /\ insAt = 0 /\ first = None

SpecToJson == InitToJson /\ [][ToJsonCall]_vars

----------------------------------------------------------------------------
(* JsonValue::to_xml *)

\* str::replace(char, &str)
RECURSIVE Replace(_, _, _)
Replace(s, from, to) ==
  IF s = <<>> THEN <<>>
  ELSE (IF Head(s) = from THEN to ELSE <<Head(s)>>) \o Replace(Tail(s), from, to)

\* escape_xml_text replacing '&' last
escape_xml_text_amp_last(text) ==
  Replace(
    Replace(
      Replace(
        Replace(
          Replace(text, "<", <<"&", "l", "t", ";">>),
          ">", <<"&", "g", "t", ";">>),
        "\"", <<"&", "q", "u", "o", "t", ";">>),
      "'", <<"&", "a", "p", "o", "s", ";">>),
    "&", <<"&", "a", "m", "p", ";">>)

escape_xml_text(text) ==
  Replace(
    Replace(
      Replace(
        Replace(
          Replace(text, "&", <<"&", "a", "m", "p", ";">>),
          "<", <<"&", "l", "t", ";">>),
        ">", <<"&", "g", "t", ";">>),
      "\"", <<"&", "q", "u", "o", "t", ";">>),
    "'", <<"&", "a", "p", "o", "s", ";">>)

\* Display of bool
BoolToString(b) ==
  IF b THEN <<"t", "r", "u", "e">> ELSE <<"f", "a", "l", "s", "e">>

\* Display of f64: the decimal expansion, never an exponent
RECURSIVE NatToDigits(_)
NatToDigits(n) ==
  IF n < 10 THEN <<ToString(n)>>
  ELSE Append(NatToDigits(n \div 10), ToString(n % 10))

Zeros(n) == [i \in 1..n |-> "0"]

F64ToString(n) ==
  LET ds == NatToDigits(n.mant)
      sign == IF n.neg THEN <<"-">> ELSE <<>>
  IN
  IF n.exp >= 0 THEN sign \o ds \o Zeros(n.exp)
  ELSE IF Len(ds) > 0 - n.exp
  THEN sign \o SubSeq(ds, 1, Len(ds) + n.exp) \o <<".">>
         \o SubSeq(ds, Len(ds) + n.exp + 1, Len(ds))
  ELSE sign \o <<"0", ".">> \o Zeros(0 - n.exp - Len(ds)) \o ds

OpenTagText(tag) == <<"<">> \o tag \o <<">">>
CloseTagText(tag) == <<"<", "/">> \o tag \o <<">">>

\* the orders in which a HashMap may yield its keys
Orders(keys) ==
  {o \in [1..Cardinality(keys) -> keys] : \A k \in keys : \E i \in DOMAIN o : o[i] = k}

\* to_xml_with_tag: the set of texts it may return (one per iteration order
\* of every Object in the value)
RECURSIVE ToXmlWithTag(_, _)
RECURSIVE ItemsXml(_, _)

\* the pieces "  " + item.to_xml_with_tag(tag of item), in the given order
ItemsXml(values, tags) ==
  IF values = <<>> THEN {<<>>}
  ELSE {<<" ", " ">> \o x \o rest :
          x \in ToXmlWithTag(Head(values), Head(tags)),
          rest \in ItemsXml(Tail(values), Tail(tags))}

ToXmlWithTag(value, tag) ==
  IF value.t = "Null" THEN {OpenTagText(tag)}
  ELSE IF value.t = "Boolean"
  THEN {OpenTagText(tag) \o BoolToString(value.v) \o CloseTagText(tag)}
  ELSE IF value.t = "Number"
  THEN {OpenTagText(tag) \o F64ToString(value.v) \o CloseTagText(tag)}
  ELSE IF value.t = "String"
  THEN {OpenTagText(tag) \o escape_xml_text(value.v) \o CloseTagText(tag)}
  ELSE IF value.t = "Array"
  THEN {OpenTagText(tag) \o body \o CloseTagText(tag) :
          body \in ItemsXml(value.v,
                            [i \in 1..Len(value.v) |-> <<"i", "t", "e", "m">>])}
  ELSE UNION {
         {OpenTagText(tag) \o body \o CloseTagText(tag) :
            body \in ItemsXml([i \in DOMAIN o |-> value.v[o[i]]], o)} :
         o \in Orders(DOMAIN value.v)}

ToXml(value) == ToXmlWithTag(value, <<"r", "o", "o", "t">>)

MaxStringLen == 3

TextChars == {"&", "<", ">", "\"", "'", "a", ";"}

SomeStrings ==
  {JsonString(s) : s \in UNION {[1..k -> TextChars] : k \in 0..MaxStringLen}}

\* values of every variant (a tuple: the variants are not comparable)
SomeScalars ==
  <<JsonNull, JsonBoolean(TRUE), JsonBoolean(FALSE),
    JsonNumber([neg |-> TRUE, mant |-> 15, exp |-> -1]),
    JsonNumber([neg |-> FALSE, mant |-> 2, exp |-> 1]),
    JsonString(<<"&", "<">>)>>

IsSomeValue(value) ==
  \/ value \in SomeStrings
  \/ \E i \in DOMAIN SomeScalars : value = SomeScalars[i]
  \/ \E i, j \in DOMAIN SomeScalars :
       value = JsonArray(<<SomeScalars[i], SomeScalars[j]>>)
  \/ \E i, j \in DOMAIN SomeScalars :
       value = JsonObject(MapInsert(MapInsert(EmptyMap, <<"k">>, SomeScalars[i]),
                                    <<"a">>, SomeScalars[j]))

ToXmlCall ==
  /\ mode = "to_xml" /\ output = None
  /\ \E xml \in ToXml(subject) : output' = Some(xml)
  /\ UNCHANGED <<mode, input, pos, pc, stack, ret, result, run, orig, insAt,
                 first, subject>>

InitToXml ==
  /\ mode = "to_xml"
  /\ IsSomeValue(subject)
  /\ output = None
  /\ input = <<>> /\ pos = 0 /\ pc = "done" /\ stack = <<>>
  /\ ret = None /\ result = None
  /\ run = 1 /\ orig = <<>> /\ insAt = 0 /\ first = None

SpecToXml == InitToXml /\ [][ToXmlCall]_vars

----------------------------------------------------------------------------
(* What the properties speak of, defined on the text alone *)

\* A reading of XML text independent of the parser: `st` is "text", "tag"
\* (between '<' and its '>') or "quote" (inside a quoted attribute value).
\* The scan yields the indices of the '>' that end a tag.
RECURSIVE TagEndsFrom(_, _, _)
TagEndsFrom(s, i, st) ==
  IF i > Len(s) THEN {}
  ELSE IF st = "text"
  THEN TagEndsFrom(s, i + 1, IF s[i] = "<" THEN "tag" ELSE "text")
  ELSE IF st = "quote"
  THEN TagEndsFrom(s, i + 1, IF s[i] = "\"" THEN "tag" ELSE "quote")
  ELSE IF s[i] = ">" THEN {i} \cup TagEndsFrom(s, i + 1, "text")
  ELSE TagEndsFrom(s, i + 1, IF s[i] = "\"" THEN "quote" ELSE "tag")

TagEnds(s) == TagEndsFrom(s, 1, "text")

\* offset i of s lies between two adjacent tags
BetweenTags(s, i) ==
  /\ i \in TagEnds(s)
  /\ i < Len(s) /\ s[i + 1] = "<"

RECURSIVE NameAt(_, _)
NameAt(s, i) ==
  IF i <= Len(s) /\ (s[i] \in Letters \cup Digits \cup {"_", "-"})
  THEN <<s[i]>> \o NameAt(s, i + 1)
  ELSE <<>>

\* the tags of s in document order: "open", "close" or "empty" (self-closing)
RECURSIVE TagEventsFrom(_, _)
TagEventsFrom(s, i) ==
  IF i > Len(s) THEN <<>>
  ELSE IF s[i] # "<" THEN TagEventsFrom(s, i + 1)
  ELSE LET ends == {e \in TagEnds(s) : e > i}
           end == IF ends = {} THEN Len(s) + 1
                  ELSE CHOOSE e \in ends : \A f \in ends : e <= f
           closing == i < Len(s) /\ s[i + 1] = "/"
           event ==
             IF closing THEN [k |-> "close", name |-> NameAt(s, i + 2)]
             ELSE IF end <= Len(s) /\ s[end - 1] = "/"
             THEN [k |-> "empty", name |-> NameAt(s, i + 1)]
             ELSE [k |-> "open", name |-> NameAt(s, i + 1)]
       IN <<event>> \o TagEventsFrom(s, end + 1)

TagEvents(s) == TagEventsFrom(s, 1)

\* the names of the elements still open after the events, innermost last;
\* <<"!">> (no name) once a close tag did not match the innermost open one
RECURSIVE OpenAfter(_, _)
OpenAfter(events, open) ==
  IF events = <<>> \/ open = <<"!">> THEN open
  ELSE LET e == Head(events) IN
       IF e.k = "empty" THEN OpenAfter(Tail(events), open)
       ELSE IF e.k = "open" THEN OpenAfter(Tail(events), Append(open, e.name))
       ELSE IF open # <<>> /\ open[Len(open)] = e.name
       THEN OpenAfter(Tail(events), SubSeq(open, 1, Len(open) - 1))
       ELSE <<"!">>

\* every close tag of s names the innermost element open at that point, and
\* none is left open
WellNested(s) == OpenAfter(TagEvents(s), <<>>) = <<>>

\* A reading of JSON text independent of the parser: whether the character
\* at index i lies outside every string (a string runs from a '"' to the
\* next '"' not preceded by a backslash escape)
RECURSIVE InsideStringAt(_, _, _, _)
InsideStringAt(s, i, j, inside) ==
  IF j >= i \/ j > Len(s) THEN inside
  ELSE IF ~inside THEN InsideStringAt(s, i, j + 1, s[j] = "\"")
  ELSE IF s[j] = "\\" THEN InsideStringAt(s, i, j + 2, TRUE)
  ELSE InsideStringAt(s, i, j + 1, s[j] # "\"")

OutsideStrings(s, i) == ~InsideStringAt(s, i, 1, FALSE)

\* offset i of s is just after or just before a structural character
AroundPunctuation(s, i) ==
  \/ i >= 1 /\ s[i] \in Structural /\ OutsideStrings(s, i)
  \/ i < Len(s) /\ s[i + 1] \in Structural /\ OutsideStrings(s, i + 1)

\* equality of JsonValues, variant by variant
RECURSIVE SameJson(_, _)
SameJson(a, b) ==
  /\ a.t = b.t
  /\ IF a.t = "Array"
     THEN /\ Len(a.v) = Len(b.v)
          /\ \A i \in DOMAIN a.v : SameJson(a.v[i], b.v[i])
     ELSE IF a.t = "Object"
     THEN /\ DOMAIN a.v = DOMAIN b.v
          /\ \A k \in DOMAIN a.v : SameJson(a.v[k], b.v[k])
     ELSE a.v = b.v

\* two outcomes of a parse agree: the same node or value, or both an error,
\* or both no return at all
SameOutcome(a, b) ==
  /\ a.kind = b.kind
  /\ a.kind = "Ok" =>
       IF mode = "xml" THEN a.value = b.value ELSE SameJson(a.value, b.value)

Done == pc = "done" /\ result # None
Succeeded == Done /\ result[1].kind = "Ok"
Failed(msg) == Done /\ result[1].kind = "Err" /\ result[1].msg = msg

----------------------------------------------------------------------------
(* Properties *)

\* C1: when the input ends while an element's content is still open, the
\* parse ends with an error: a step of the parser taken in the content loop
\* with no character left finishes the parse with an Err.
C1_EndOfInputIsAnError ==
  [][(mode = "xml" /\ pc = "item" /\ PeekChar(input, pos) = None /\ run' = run)
       => (pc' = "done" /\ result' # None /\ result'[1].kind = "Err")]_vars

\* C2: a second parse of the same text, with a run of whitespace inserted
\* between two adjacent XML tags or next to a JSON structural character
\* outside strings, ends as the first did: the same node or value, or both
\* an error (and it does not return where the first did not).
Respaced ==
  /\ run = 2
  /\ IF mode = "xml" THEN BetweenTags(orig, insAt)
     ELSE AroundPunctuation(orig, insAt)

C2_WhitespaceInsensitive ==
  Respaced =>
    /\ Done => SameOutcome(first[1], result[1])
    /\ XmlHung => first[1].kind = "Hang"

C2_Witness ==
  /\ Respaced /\ Succeeded
  /\ mode = "json"
  /\ result[1].value.t = "Object"
  /\ DOMAIN result[1].value.v # {}

\* C3: a number value is returned only for literal text that matches
\*   '-'? digit+ ('.' digit+)? ([eE] [+-]? digit+)?
\* (checked where the whole input starts with the number: the text consumed
\* is then the input up to the cursor).
RECURSIVE DigitRun(_)
DigitRun(s) == IF s # <<>> /\ Head(s) \in Digits THEN 1 + DigitRun(Tail(s)) ELSE 0

NumberGrammar(s) ==
  LET s1 == IF s # <<>> /\ Head(s) = "-" THEN Tail(s) ELSE s
      n1 == DigitRun(s1)
      s2 == SubSeq(s1, n1 + 1, Len(s1))
      dot == s2 # <<>> /\ Head(s2) = "."
      n2 == IF dot THEN DigitRun(Tail(s2)) ELSE 0
      s3 == IF dot THEN SubSeq(s2, n2 + 2, Len(s2)) ELSE s2
      ex == s3 # <<>> /\ Head(s3) \in {"e", "E"}
      s4 == IF ex /\ Len(s3) >= 2 /\ s3[2] \in {"+", "-"}
            THEN SubSeq(s3, 3, Len(s3)) ELSE Tail(s3)
  IN
  /\ n1 >= 1
  /\ dot => n2 >= 1
  /\ IF ex THEN DigitRun(s4) >= 1 /\ DigitRun(s4) = Len(s4) ELSE s3 = <<>>

C3_NumberMatchesGrammar ==
  ( /\ mode = "json" /\ pc = "return" /\ stack = <<>>
    /\ input # <<>> /\ (input[1] \in Digits \/ input[1] = "-")
    /\ ret[1].t = "Number" )
  => NumberGrammar(SubSeq(input, 1, pos))

\* C4: JsonParser::parse returns a value only with the cursor at the end of
\* the input, and "Unexpected characters after JSON value" only with a
\* character that is not whitespace under the cursor.
C4_WholeInputConsumed ==
  mode = "json" =>
    /\ Succeeded => pos = Len(input)
    /\ Failed("Unexpected characters after JSON value") =>
         pos < Len(input) /\ input[pos + 1] \notin Whitespace

C4_Witness ==
  /\ mode = "json" /\ Succeeded
  /\ Len(input) >= 2 /\ input[Len(input)] \in Whitespace

\* C5: a parse that returns a node has consumed text whose every closing tag
\* names the innermost open element, and a parse that ends with "Mismatched
\* tags: X and Y" has just read the closing tag Y while the innermost open
\* element is X, X differing from Y.
C5_TagsMatch ==
  mode = "xml" =>
    /\ Succeeded => WellNested(SubSeq(input, 1, pos))
    /\ Failed("Mismatched tags") =>
         LET events == TagEvents(SubSeq(input, 1, pos))
             open == OpenAfter(SubSeq(events, 1, Len(events) - 1), <<>>)
         IN /\ events # <<>> /\ open # <<>>
            /\ events[Len(events)].k = "close"
            /\ result[1].args = <<open[Len(open)], events[Len(events)].name>>
            /\ open[Len(open)] # events[Len(events)].name

C5_Witness ==
  /\ mode = "xml" /\ Failed("Mismatched tags")
  /\ Len(TagEvents(SubSeq(input, 1, pos))) >= 3

\* C6: to_json returns the bare text exactly for a node with text and with
\* neither attributes nor children, Null exactly for a node with none of the
\* three, and otherwise an object holding "@attributes" exactly when there
\* are attributes and "#text" exactly when there is text.
C6_ThreeCases ==
  (mode = "to_json" /\ output # None) =>
    LET json == output[1]
        hasAttributes == DOMAIN subject.attributes # {}
        hasText == subject.text # None
        hasChildren == subject.children # <<>>
    IN
    /\ json.t \in {"String", "Null", "Object"}
    /\ json.t = "String" <=> (hasText /\ ~hasAttributes /\ ~hasChildren)
    /\ json.t = "String" => json.v = subject.text[1]
    /\ json.t = "Null" <=> (~hasText /\ ~hasAttributes /\ ~hasChildren)
    /\ json.t = "Object" =>
         /\ AttributesKey \in DOMAIN json.v <=> hasAttributes
         /\ TextKey \in DOMAIN json.v <=> hasText
         /\ hasText => json.v[TextKey].t = "String"
                       /\ json.v[TextKey].v = subject.text[1]
         /\ hasAttributes =>
              /\ json.v[AttributesKey].t = "Object"
              /\ DOMAIN json.v[AttributesKey].v = DOMAIN subject.attributes

C6_Witness ==
  /\ mode = "to_json" /\ output # None
  /\ output[1].t = "Object"
  /\ subject.text # None /\ DOMAIN subject.attributes # {}
  /\ subject.children = <<>>

\* C7: for every tag carried by a child, the object maps the tag to the
\* projection of the child if it is the only one with that tag, and else to
\* the array of the projections of the children with that tag, in document
\* order, one entry per child.
TaggedChildren(node, tag) ==
  LET HasTag(c) == c.tag = tag IN SelectSeq(node.children, HasTag)

C7_ChildGroups ==
  (mode = "to_json" /\ output # None /\ subject.children # <<>>) =>
    /\ output[1].t = "Object"
    /\ \A i \in DOMAIN subject.children :
         LET tag == subject.children[i].tag
             group == TaggedChildren(subject, tag)
         IN
         /\ tag \in DOMAIN output[1].v
         /\ IF Len(group) = 1
            THEN SameJson(output[1].v[tag], ToJson(group[1]))
            ELSE /\ output[1].v[tag].t = "Array"
                 /\ Len(output[1].v[tag].v) = Len(group)
                 /\ \A j \in DOMAIN group :
                      SameJson(output[1].v[tag].v[j], ToJson(group[j]))

C7_Witness ==
  /\ mode = "to_json" /\ output # None
  /\ Len(TaggedChildren(subject, <<"a">>)) = 1
  /\ Len(TaggedChildren(subject, <<"b">>)) = 2
  /\ subject.children[1].tag = <<"b">> /\ subject.children[3].tag = <<"b">>
  /\ subject.children[1] # subject.children[3]

\* C8: the text of every node of a returned tree is non-empty and has no
\* whitespace at either end.
RECURSIVE TextTrimmed(_)
TextTrimmed(node) ==
  /\ node.text # None =>
       /\ node.text[1] # <<>>
       /\ node.text[1][1] \notin Whitespace
       /\ node.text[1][Len(node.text[1])] \notin Whitespace
  /\ \A i \in DOMAIN node.children : TextTrimmed(node.children[i])

C8_TextIsTrimmed ==
  (mode = "xml" /\ Succeeded) => TextTrimmed(result[1].value)

\* C9: to_xml of a String under the tag "root" is <root>, each character of
\* the string escaped once on its own, </root>; the escaped text holds no
\* '<', '>', '"' or '\''.
EscapeChar(c) ==
  IF c = "&" THEN <<"&", "a", "m", "p", ";">>
  ELSE IF c = "<" THEN <<"&", "l", "t", ";">>
  ELSE IF c = ">" THEN <<"&", "g", "t", ";">>
  ELSE IF c = "\"" THEN <<"&", "q", "u", "o", "t", ";">>
  ELSE IF c = "'" THEN <<"&", "a", "p", "o", "s", ";">>
  ELSE <<c>>

EscapeEach(s) == Flatten([i \in DOMAIN s |-> EscapeChar(s[i])])

C9_EscapedOnce ==
  (mode = "to_xml" /\ output # None /\ subject.t = "String") =>
    LET escaped == SubSeq(output[1], 7, Len(output[1]) - 7) IN
    /\ output[1] = <<"<", "r", "o", "o", "t", ">">> \o EscapeEach(subject.v)
                     \o <<"<", "/", "r", "o", "o", "t", ">">>
    /\ \A i \in DOMAIN escaped : escaped[i] \notin {"<", ">", "\"", "'"}

C9_Witness ==
  /\ mode = "to_xml" /\ output # None /\ subject.t = "String"
  /\ \E i, j, k \in DOMAIN subject.v :
       subject.v[i] = "&" /\ subject.v[j] = "<" /\ subject.v[k] = "'"

\* C10: the cursor of either parser never lies beyond the end of the input.
C10_CursorWithinInput ==
  mode \in {"xml", "json"} => pos <= Len(input)

====
